---- MODULE Spec2Model ----
(***************************************************************************)
(* spoolq: a durable queue whose items are files of a spool directory.     *)
(* The model follows src/src/lib.rs: Queue::push, Queue::pop, Queue::flush,*)
(* Queue::recover and QueueStream::poll, at the granularity of the file    *)
(* system calls they make (create_new, write, rename, read_dir, open,      *)
(* remove_file), so that calls made through several handles interleave.    *)
(***************************************************************************)
EXTENDS Integers, Sequences, FiniteSets, TLC

\* ---------------------------------------------------------------- bounds
NumHandles == 2       \* queue handles opened on the one spool directory
MaxNonce == 2         \* nonces rand_string() can draw: at most so many pushes
MaxSeq == 1           \* where nonces may repeat, pushes are made at counters below this

\* ------------------------------------------------------ program constants
\* seq: u32, held as two 16-bit limbs <<high, low>>
SeqLimb == 65536

Handles == 1..NumHandles
Nonces == 1..MaxNonce
\* The payloads.  The library never looks into an item (T is a type
\* parameter), so two values, enough to tell one item from another, stand
\* for all.
Items == {0, 1}

\* ------------------------------------------------------------------ paths
\* A path of the spool is <<stem, extension>>; the stem of an item file is
\* <<seq, nonce>>, the two fields of format!("{:016x}-{}", seq, nonce), and
\* the extension is "" (none), "inc" or "pop".  Neither field holds a '.',
\* so Path::extension() is the second component.
Exts == {"", "inc", "pop"}
ItemName(s, n) == <<s, n>>
ItemPath(s, n) == <<ItemName(s, n), "">>
Extension(p) == p[2]
WithExtension(p, e) == <<p[1], e>>
FileStem(p) == <<p[1], "">>

\* A file that is no item of the queue's type, put in the spool by somebody
\* else; it has no extension.
SeqZero == <<0, 0>>
SeqMax == <<SeqLimb - 1, SeqLimb - 1>>
\* self.seq += 1 where it does not overflow
SeqSucc(s) == IF s[2] = SeqLimb - 1 THEN <<s[1] + 1, 0>> ELSE <<s[1], s[2] + 1>>

\* format!("{:016x}", seq): sixteen lower-case hexadecimal digits, each held
\* as its value (the characters '0'..'9','a'..'f' are in that order).
HexDigits(x) == <<x \div 4096, (x \div 256) % 16, (x \div 16) % 16, x % 16>>
OrderKey(s) == <<0, 0, 0, 0, 0, 0, 0, 0>> \o HexDigits(s[1]) \o HexDigits(s[2])
\* a < b for strings of one length, as str::cmp orders them
LexLess(a, b) ==
  \E i \in 1..Len(a) : a[i] < b[i] /\ \A j \in 1..(i - 1) : a[j] = b[j]

ForeignPath == <<ItemName(SeqZero, 0), "">>
NoPath == <<ItemName(<<-1, -1>>, -1), "">>
NoItem == 0 - 1

\* ------------------------------------------------------------ the codec
\* serde_json::to_writer emits the item through several writes (here two:
\* the opening with the value, then the closing brace); from_reader accepts
\* exactly a complete text.
Encode(i) == <<i, "}">>
Decode(b) ==
  IF Len(b) = 2 /\ b[2] = "}"
  THEN [ok |-> TRUE, val |-> b[1]]
  ELSE [ok |-> FALSE, val |-> NoItem]
ForeignBytes == <<"#">>

\* ------------------------------------------------------- the file system
\* A directory is a function from the paths present to their contents.
EmptyDir == [p \in {} |-> <<>>]
Exists(d, p) == p \in DOMAIN d
CreateNew(d, p) == [q \in DOMAIN d \cup {p} |-> IF q = p THEN <<>> ELSE d[q]]
WriteTo(d, p, tok) == [d EXCEPT ![p] = Append(@, tok)]
\* rename(2): the target is replaced if present; renaming a file to itself
\* changes nothing.  The caller has checked that `from` exists.
Rename(d, from, to) ==
  IF from = to THEN d
  ELSE [q \in (DOMAIN d \ {from}) \cup {to} |-> IF q = to THEN d[from] ELSE d[q]]
RemoveFile(d, p) == [q \in DOMAIN d \ {p} |-> d[q]]

\* ------------------------------------------------------------------ state
VARIABLES
  dir,        \* the spool directory
  seq,        \* seq[h]: the handle's counter (Queue.seq)
  pc,         \* pc[h]: where handle h is inside a call, or "idle"
  via,        \* via[h]: "pop" for Queue::pop, "poll" for QueueStream::poll
  path,       \* path[h]: item_path of the push or pop in progress
  item,       \* item[h]: the item being pushed, or the one pop has decoded
  todo,       \* todo[h]: entries read_dir has still to yield to flush/recover
  pre,        \* pre[h]: the directory a sole client's flush/recover was called on
  exclusive,  \* TRUE: a call starts only when no other call is in progress
  last,       \* the call that returned last, and what it returned
  used,       \* nonces drawn so far
  pushed,     \* stem -> item, for every push that committed
  got,        \* stems of the files a pop has returned
  again,      \* stems of the files pops have returned more than once
  unacked,    \* <<stem, via>>: returned by pop, neither flushed nor recovered since
  flushed,    \* stems of the files flush removed
  recoverRan  \* a recover has been called

locals == <<pc, via, path, item, todo, pre>>
ghost == <<used, pushed, got, again, unacked, flushed, recoverRan>>
vars == <<dir, seq, locals, exclusive, last, ghost>>

Returned(op, res) == [op |-> op, res |-> res]

\* The handles' counters are s0, the spool is empty.
InitFrom(excl, s0) ==
  /\ dir = EmptyDir
  /\ seq = s0
  /\ pc = [h \in Handles |-> "idle"]
  /\ via = [h \in Handles |-> "pop"]
  /\ path = [h \in Handles |-> NoPath]
  /\ item = [h \in Handles |-> NoItem]
  /\ todo = [h \in Handles |-> {}]
  /\ pre = [h \in Handles |-> EmptyDir]
  /\ exclusive = excl
  /\ last = Returned("new", "ok")
  /\ used = {}
  /\ pushed = [n \in {} |-> NoItem]
  /\ got = {}
  /\ again = {}
  /\ unacked = {}
  /\ flushed = {}
  /\ recoverRan = FALSE

\* Handles fresh from Queue::new.
InitWith(excl) == InitFrom(excl, [h \in Handles |-> SeqZero])

\* Handles that have made many pushes (all popped and flushed since): the
\* counter is about to carry into its high half, or about to reach u32::MAX.
WornSeqs == {SeqZero, <<0, SeqLimb - 1>>, <<SeqLimb - 1, SeqLimb - 2>>}
WornInit == \E s0 \in [Handles -> WornSeqs] : InitFrom(TRUE, s0)

\* One client at a time (the tests), or any number of clients at once.
Init == InitWith(TRUE)
ConcInit == InitWith(FALSE)

\* A call may start on an idle handle.
MayStart(h) ==
  /\ pc[h] = "idle"
  /\ exclusive => \A g \in Handles : pc[g] = "idle"

\* The call of h returns: its locals are dropped.
Return(h, op, res) ==
  /\ pc' = [pc EXCEPT ![h] = "idle"]
  /\ path' = [path EXCEPT ![h] = NoPath]
  /\ item' = [item EXCEPT ![h] = NoItem]
  /\ todo' = [todo EXCEPT ![h] = {}]
  /\ pre' = [pre EXCEPT ![h] = EmptyDir]
  /\ via' = [via EXCEPT ![h] = "pop"]
  /\ last' = Returned(op, res)

\* ------------------------------------------------------------ Queue::push
\* rand_string(): 24 random bytes, taken never to repeat.  Nonces are only
\* compared for equality, so the fresh nonce drawn is the least unused one.
FreshNonces == {n \in Nonces \ used : \A m \in Nonces \ used : n <= m}

\* Mutant: the counter is advanced when the name is made.
PushCreateCountsFirst(h, it, n) ==
  /\ MayStart(h)
  /\ used' = used \cup {n}
  /\ LET complete == ItemPath(seq[h], n)
         incomplete == WithExtension(complete, "inc")
     IN IF Exists(dir, incomplete)
        THEN /\ Return(h, "push", "AlreadyExists")
             /\ UNCHANGED <<dir, seq>>
        ELSE /\ dir' = CreateNew(dir, incomplete)
             /\ seq' = [seq EXCEPT ![h] = SeqSucc(@)]
             /\ pc' = [pc EXCEPT ![h] = "push_write"]
             /\ path' = [path EXCEPT ![h] = complete]
             /\ item' = [item EXCEPT ![h] = it]
             /\ UNCHANGED <<via, todo, pre, last>>
  /\ UNCHANGED <<exclusive, pushed, got, again, unacked, flushed, recoverRan>>

\* push, to the exclusive create of the ".inc" file.  The item and the nonce
\* are the call's inputs.
PushCreate(h, it, n) ==
  /\ MayStart(h)
  /\ used' = used \cup {n}
  /\ LET complete == ItemPath(seq[h], n)
         incomplete == WithExtension(complete, "inc")
     IN IF Exists(dir, incomplete)
        THEN /\ Return(h, "push", "AlreadyExists")
             /\ UNCHANGED dir
        ELSE /\ dir' = CreateNew(dir, incomplete)
             /\ pc' = [pc EXCEPT ![h] = "push_write"]
             /\ path' = [path EXCEPT ![h] = complete]
             /\ item' = [item EXCEPT ![h] = it]
             /\ UNCHANGED <<via, todo, pre, last>>
  /\ UNCHANGED <<seq, exclusive, pushed, got, again, unacked, flushed, recoverRan>>

\* Mutant: the file is taken to be complete after the first write.
PushWriteOnce(h) ==
  /\ pc[h] = "push_write"
  /\ LET incomplete == WithExtension(path[h], "inc")
         bytes == Encode(item[h])
         k == Len(dir[incomplete]) + 1
     IN /\ dir' = WriteTo(dir, incomplete, bytes[k])
        /\ pc' = [pc EXCEPT ![h] = "push_rename"]
  /\ UNCHANGED <<seq, via, path, item, todo, pre, exclusive, last, ghost>>

\* to_writer: one more write of the encoded item; after the last one the
\* file is closed.
PushWrite(h) ==
  /\ pc[h] = "push_write"
  /\ LET incomplete == WithExtension(path[h], "inc")
         bytes == Encode(item[h])
         k == Len(dir[incomplete]) + 1
     IN /\ dir' = WriteTo(dir, incomplete, bytes[k])
        /\ pc' = [pc EXCEPT ![h] = IF k = Len(bytes) THEN "push_rename" ELSE "push_write"]
  /\ UNCHANGED <<seq, via, path, item, todo, pre, exclusive, last, ghost>>

\* rename(incomplete_path, complete_path), then self.seq += 1 and Ok(()).
\* At u32::MAX the addition panics in a build with overflow checks and wraps
\* to 0 in one without.
PushRename(h) ==
  /\ pc[h] = "push_rename"
  /\ LET incomplete == WithExtension(path[h], "inc")
     IN IF ~Exists(dir, incomplete)
        THEN /\ Return(h, "push", "NotFound")
             /\ UNCHANGED <<dir, seq, pushed>>
        ELSE /\ dir' = Rename(dir, incomplete, path[h])
             /\ pushed' = [n \in DOMAIN pushed \cup {path[h][1]} |->
                             IF n = path[h][1] THEN item[h] ELSE pushed[n]]
             /\ IF seq[h] # SeqMax
                THEN /\ seq' = [seq EXCEPT ![h] = SeqSucc(@)]
                     /\ Return(h, "push", "ok")
                ELSE \/ /\ seq' = [seq EXCEPT ![h] = SeqZero]
                        /\ Return(h, "push", "ok")
                     \/ /\ seq' = seq
                        /\ Return(h, "push", "panic")
  /\ UNCHANGED <<exclusive, used, got, again, unacked, flushed, recoverRan>>

\* ------------------------------------------- Queue::pop, QueueStream::poll
\* Mutant: an empty spool ends the stream.
PollResultEnds(res) ==
  CASE res = "some" -> "Ready"
    [] res = "none" -> "ReadyNone"
    [] OTHER -> res

\* Mutant: poll reports NotReady whatever pop returned.
PollResultDrops(res) ==
  CASE res \in {"some", "none"} -> "NotReady"
    [] OTHER -> res

\* What poll makes of pop's result: Ready(Some(t)), NotReady, or the error.
PollResult(res) ==
  CASE res = "some" -> "Ready"
    [] res = "none" -> "NotReady"
    [] OTHER -> res

PopReturn(h, res) ==
  Return(h, via[h], IF via[h] = "poll" THEN PollResult(res) ELSE res)

\* Mutant: pop skips only the files still being written.
PopSelectsNotInc(p) == Extension(p) # "inc"

\* Mutant: pop skips only the files marked as popped.
PopSelectsNotPop(p) == Extension(p) # "pop"

\* The entries pop does not skip: those without an extension.
PopSelects(p) == Extension(p) = ""

\* read_dir and the loop up to the first entry without an extension; the
\* order of a directory's entries is the file system's, so it is any of them.
PopScan(h, v) ==
  /\ MayStart(h)
  /\ LET entries == {p \in DOMAIN dir : PopSelects(p)}
     IN IF entries = {}
        THEN Return(h, v, IF v = "poll" THEN PollResult("none") ELSE "none")
        ELSE \E p \in entries :
               /\ pc' = [pc EXCEPT ![h] = "pop_open"]
               /\ path' = [path EXCEPT ![h] = p]
               /\ via' = [via EXCEPT ![h] = v]
               /\ UNCHANGED <<item, todo, pre, last>>
  /\ UNCHANGED <<dir, seq, exclusive, ghost>>

\* Mutant: the file is renamed before it is decoded.
PopOpenStagesFirst(h) ==
  /\ pc[h] = "pop_open"
  /\ IF ~Exists(dir, path[h])
     THEN PopReturn(h, "NotFound") /\ UNCHANGED dir
     ELSE LET t == Decode(dir[path[h]])
          IN IF ~t.ok
             THEN /\ dir' = Rename(dir, path[h], WithExtension(path[h], "pop"))
                  /\ PopReturn(h, "DecodeError")
             ELSE /\ item' = [item EXCEPT ![h] = t.val]
                  /\ pc' = [pc EXCEPT ![h] = "pop_rename"]
                  /\ UNCHANGED <<dir, via, path, todo, pre, last>>
  /\ UNCHANGED <<seq, exclusive, ghost>>

\* Mutant: a file that has gone is taken for an empty spool.
PopOpenEmptyWhenGone(h) ==
  /\ pc[h] = "pop_open"
  /\ IF ~Exists(dir, path[h])
     THEN PopReturn(h, "none")
     ELSE LET t == Decode(dir[path[h]])
          IN IF ~t.ok
             THEN PopReturn(h, "DecodeError")
             ELSE /\ item' = [item EXCEPT ![h] = t.val]
                  /\ pc' = [pc EXCEPT ![h] = "pop_rename"]
                  /\ UNCHANGED <<via, path, todo, pre, last>>
  /\ UNCHANGED <<dir, seq, exclusive, ghost>>

\* open(&item_path) and serde_json::from_reader.
PopOpen(h) ==
  /\ pc[h] = "pop_open"
  /\ IF ~Exists(dir, path[h])
     THEN PopReturn(h, "NotFound")
     ELSE LET t == Decode(dir[path[h]])
          IN IF ~t.ok
             THEN PopReturn(h, "DecodeError")
             ELSE /\ item' = [item EXCEPT ![h] = t.val]
                  /\ pc' = [pc EXCEPT ![h] = "pop_rename"]
                  /\ UNCHANGED <<via, path, todo, pre, last>>
  /\ UNCHANGED <<dir, seq, exclusive, ghost>>

\* Mutant: the result of the rename is ignored.
PopRenameIgnoresError(h) ==
  /\ pc[h] = "pop_rename"
  /\ LET stage_path == WithExtension(path[h], "pop")
     IN /\ dir' = IF Exists(dir, path[h]) THEN Rename(dir, path[h], stage_path) ELSE dir
        /\ got' = got \cup {path[h][1]}
        /\ again' = IF path[h][1] \in got THEN again \cup {path[h][1]} ELSE again
        /\ unacked' = unacked \cup {<<path[h][1], via[h]>>}
        /\ PopReturn(h, "some")
  /\ UNCHANGED <<seq, exclusive, used, pushed, flushed, recoverRan>>

\* Mutant: the file is deleted once read, not renamed.
PopRenameDeletes(h) ==
  /\ pc[h] = "pop_rename"
  /\ IF ~Exists(dir, path[h])
     THEN /\ PopReturn(h, "NotFound")
          /\ UNCHANGED <<dir, got, again, unacked>>
     ELSE /\ dir' = RemoveFile(dir, path[h])
          /\ got' = got \cup {path[h][1]}
          /\ again' = IF path[h][1] \in got THEN again \cup {path[h][1]} ELSE again
          /\ unacked' = unacked \cup {<<path[h][1], via[h]>>}
          /\ PopReturn(h, "some")
  /\ UNCHANGED <<seq, exclusive, used, pushed, flushed, recoverRan>>

\* rename(item_path, stage_path) and Ok(Some(item)).
PopRename(h) ==
  /\ pc[h] = "pop_rename"
  /\ LET stage_path == WithExtension(path[h], "pop")
     IN IF ~Exists(dir, path[h])
        THEN /\ PopReturn(h, "NotFound")
             /\ UNCHANGED <<dir, got, again, unacked>>
        ELSE /\ dir' = Rename(dir, path[h], stage_path)
             /\ got' = got \cup {path[h][1]}
             /\ again' = IF path[h][1] \in got THEN again \cup {path[h][1]} ELSE again
             /\ unacked' = unacked \cup {<<path[h][1], via[h]>>}
             /\ PopReturn(h, "some")
  /\ UNCHANGED <<seq, exclusive, used, pushed, flushed, recoverRan>>

\* ----------------------------------------------------------- Queue::flush
\* Mutant: flush skips only the files still being written.
FlushSelectsNotInc(p) == Extension(p) # "inc"

\* Mutant: flush compares with the wrong extension.
FlushSelectsInc(p) == Extension(p) = "inc"

\* The entries flush does not skip: those with the extension "pop".
FlushSelects(p) == Extension(p) = "pop"

\* read_dir.  What the iterator yields while the directory changes under it
\* is the file system's choice: every entry present at the call and not yet
\* yielded (todo), and possibly any other entry present when it is asked.
FlushScan(h) ==
  /\ MayStart(h)
  /\ pc' = [pc EXCEPT ![h] = "flush_loop"]
  /\ todo' = [todo EXCEPT ![h] = {p \in DOMAIN dir : FlushSelects(p)}]
  /\ pre' = [pre EXCEPT ![h] = IF exclusive THEN dir ELSE EmptyDir]
  /\ UNCHANGED <<dir, seq, via, path, item, exclusive, last, ghost>>

Forget(u, name) == {k \in u : k[1] # name}

\* The next entry with the extension "pop", and remove_file(p)?.
FlushStep(h) ==
  /\ pc[h] = "flush_loop"
  /\ \E p \in todo[h] \cup {q \in DOMAIN dir : FlushSelects(q)} :
       IF ~Exists(dir, p)
       THEN /\ Return(h, "flush", "NotFound")
            /\ UNCHANGED <<dir, flushed, unacked>>
       ELSE /\ dir' = RemoveFile(dir, p)
            /\ todo' = [todo EXCEPT ![h] = @ \ {p}]
            /\ flushed' = flushed \cup {p[1]}
            /\ unacked' = Forget(unacked, p[1])
            /\ UNCHANGED <<pc, via, path, item, pre, last>>
  /\ UNCHANGED <<seq, exclusive, used, pushed, got, again, recoverRan>>

\* Mutant: flush returns after the first entry it has dealt with.
FlushDoneEarly(h) ==
  /\ pc[h] = "flush_loop"
  /\ todo[h] = {} \/ todo[h] # {p \in DOMAIN pre[h] : FlushSelects(p)}
  /\ Return(h, "flush", "ok")
  /\ UNCHANGED <<dir, seq, exclusive, ghost>>

\* The iterator is exhausted: Ok(()).
FlushDone(h) ==
  /\ pc[h] = "flush_loop"
  /\ todo[h] = {}
  /\ Return(h, "flush", "ok")
  /\ UNCHANGED <<dir, seq, exclusive, ghost>>

\* --------------------------------------------------------- Queue::recover
\* Mutant: recover skips nothing.
RecoverSelectsAll(p) == TRUE

\* Mutant: recover skips every entry that has an extension.
RecoverSelectsUnmarked(p) == Extension(p) = ""

\* The entries recover does not skip: an entry is skipped only if it has an
\* extension and that extension is not "pop", so an entry without extension
\* is renamed too (to itself).
RecoverSelects(p) == Extension(p) = "" \/ Extension(p) = "pop"

RecoverScan(h) ==
  /\ MayStart(h)
  /\ pc' = [pc EXCEPT ![h] = "recover_loop"]
  /\ todo' = [todo EXCEPT ![h] = {p \in DOMAIN dir : RecoverSelects(p)}]
  /\ pre' = [pre EXCEPT ![h] = IF exclusive THEN dir ELSE EmptyDir]
  /\ recoverRan' = TRUE
  /\ UNCHANGED <<dir, seq, via, path, item, exclusive, last,
                 used, pushed, got, again, unacked, flushed>>

\* The next entry, and rename(p, unmarked)?.
RecoverStep(h) ==
  /\ pc[h] = "recover_loop"
  /\ \E p \in todo[h] \cup {q \in DOMAIN dir : RecoverSelects(q)} :
       LET unmarked == FileStem(p)
       IN IF ~Exists(dir, p)
          THEN /\ Return(h, "recover", "NotFound")
               /\ UNCHANGED <<dir, unacked>>
          ELSE /\ dir' = Rename(dir, p, unmarked)
               /\ todo' = [todo EXCEPT ![h] = @ \ {p}]
                  /\ unacked' = IF p = unmarked THEN unacked ELSE Forget(unacked, p[1])
               /\ UNCHANGED <<pc, via, path, item, pre, last>>
  /\ UNCHANGED <<seq, exclusive, used, pushed, got, again, flushed, recoverRan>>

RecoverDone(h) ==
  /\ pc[h] = "recover_loop"
  /\ todo[h] = {}
  /\ Return(h, "recover", "ok")
  /\ UNCHANGED <<dir, seq, exclusive, ghost>>

\* ------------------------------------------------------- the environment
OpOf(h) ==
  CASE pc[h] \in {"push_write", "push_rename"} -> "push"
    [] pc[h] \in {"pop_open", "pop_rename"} -> via[h]
    [] pc[h] = "flush_loop" -> "flush"
    [] pc[h] = "recover_loop" -> "recover"
    [] OTHER -> "none"

\* The system call a call in progress makes next fails (disk full,
\* permission denied, ...): the `?` returns the error.
IOFail(h) ==
  /\ pc[h] # "idle"
  /\ Return(h, OpOf(h), "EIO")
  /\ UNCHANGED <<dir, seq, exclusive, ghost>>

\* The first system call of a call (create_new, read_dir) fails.
IOFailFirst(h, op) ==
  /\ MayStart(h)
  /\ Return(h, op, "EIO")
  /\ UNCHANGED <<dir, seq, exclusive, ghost>>

\* The process holding h dies inside a call; the handle its restart makes
\* with Queue::new has seq 0.
Crash(h) ==
  /\ pc[h] # "idle"
  /\ Return(h, OpOf(h), "crashed")
  /\ seq' = [seq EXCEPT ![h] = SeqZero]
  /\ UNCHANGED <<dir, exclusive, ghost>>

\* Somebody puts a file that is no item into the spool.
Inject ==
  /\ exclusive => \A g \in Handles : pc[g] = "idle"
  /\ ~Exists(dir, ForeignPath)
  /\ dir' = [q \in DOMAIN dir \cup {ForeignPath} |->
               IF q = ForeignPath THEN ForeignBytes ELSE dir[q]]
  /\ UNCHANGED <<seq, locals, exclusive, last, ghost>>

Ops == {"push", "pop", "poll", "flush", "recover"}

Pushes ==
  \/ \E h \in Handles, it \in Items, n \in FreshNonces : PushCreate(h, it, n)
  \/ \E h \in Handles : PushWrite(h)
  \/ \E h \in Handles : PushRename(h)

\* Pushes whose nonce may be one drawn before.
RepeatingPushes ==
  \/ \E h \in Handles, it \in Items, n \in Nonces :
        seq[h][1] = 0 /\ seq[h][2] < MaxSeq /\ PushCreate(h, it, n)
  \/ \E h \in Handles : PushWrite(h)
  \/ \E h \in Handles : PushRename(h)

\* Pops are made as Queue::pop (v = "pop") or through QueueStream::poll
\* (v = "poll").
Pops(v) ==
  \/ \E h \in Handles : PopScan(h, v)
  \/ \E h \in Handles : PopOpen(h)
  \/ \E h \in Handles : PopRename(h)

Flushes ==
  \/ \E h \in Handles : FlushScan(h)
  \/ \E h \in Handles : FlushStep(h)
  \/ \E h \in Handles : FlushDone(h)

Recovers ==
  \/ \E h \in Handles : RecoverScan(h)
  \/ \E h \in Handles : RecoverStep(h)
  \/ \E h \in Handles : RecoverDone(h)

Faults ==
  \/ \E h \in Handles : IOFail(h)
  \/ \E h \in Handles, op \in Ops : IOFailFirst(h, op)

Crashes == \E h \in Handles : Crash(h)

Next == Pushes \/ Pops("pop") \/ Flushes \/ Recovers
StreamNext == Pushes \/ Pops("poll") \/ Flushes \/ Recovers
ForeignNext == Next \/ Inject
ConcNext == Pushes \/ Pops("pop") \/ Flushes \/ Crashes
OrphanNext == Next \/ Crashes
FullNext == Next \/ Crashes
FaultNext == Next \/ Faults \/ Inject
CollideNext == RepeatingPushes \/ Pops("pop") \/ Flushes \/ Recovers
PollNext == StreamNext \/ Faults \/ Inject

\* Calls one at a time, each running to its return: the tests' use.
Spec == Init /\ [][Next]_vars
\* The same, every pop made through the stream adapter.
StreamSpec == Init /\ [][StreamNext]_vars
\* The same, with a file in the spool that is no item.
ForeignSpec == Init /\ [][ForeignNext]_vars
\* Calls one at a time, and processes that die inside a call.
OrphanSpec == Init /\ [][OrphanNext]_vars
\* Pushes, pops and flushes of several handles interleaved system call by
\* system call, and processes that die inside a call; nobody calls recover.
ConcSpec == ConcInit /\ [][ConcNext]_vars
\* All four calls interleaved, and processes that die inside a call.
FullSpec == ConcInit /\ [][FullNext]_vars

\* Calls one at a time, any system call of which may fail, on a spool that
\* may hold a file that is no item.
FaultSpec == Init /\ [][FaultNext]_vars

\* The same, every pop made through the stream adapter.
PollSpec == Init /\ [][PollNext]_vars

\* Calls one at a time on handles that have made many pushes.
WornSpec == WornInit /\ [][Next]_vars

\* Calls one at a time, where rand_string() may return a nonce it returned
\* before.
CollideSpec == Init /\ [][CollideNext]_vars

\* ================================================================ claims
VisibleIn(d) == {p \in DOMAIN d : Extension(p) = ""}
ConsumedIn(d) == {p \in DOMAIN d : Extension(p) = "pop"}
IncomingIn(d) == {p \in DOMAIN d : Extension(p) = "inc"}
AllIdle == \A h \in Handles : pc[h] = "idle"
\* The call of h returns in this step.
Returns(h, from) == pc[h] \in from /\ pc'[h] = "idle"
\* A call returns `r` in this step (only a returning step changes `last`).
ReturnsNow(r) == last' # last /\ last' = r
\* What a pop in progress holds is the item that was pushed into that file.
HoldsPushed(h) ==
  pc[h] = "pop_rename" =>
    /\ path[h][1] \in DOMAIN pushed
    /\ item[h] = pushed[path[h][1]]

RECURSIVE SumOf(_)
SumOf(S) == IF S = {} THEN 0 ELSE LET n == CHOOSE n \in S : TRUE
                                  IN pushed[n] + SumOf(S \ {n})

\* C1: From an empty spool, with no flush and no recover, pops hand out every
\* pushed item exactly once, with the value pushed: no file is returned
\* twice, every pop returns an item or empty and never an error, the item a
\* pop returns is the one pushed into that file, and a pop returns empty only
\* when every pushed item has been returned.
C1_PushPopExactlyOnce ==
  (~recoverRan /\ flushed = {}) =>
    /\ again = {}
    /\ got \subseteq DOMAIN pushed
    /\ \A h \in Handles : HoldsPushed(h)
    /\ last.op = "pop" => last.res \in {"some", "none"}
    /\ last = Returned("pop", "none") => got = DOMAIN pushed

C1_Witness ==
  /\ ~recoverRan /\ flushed = {}
  /\ Cardinality(DOMAIN pushed) = 2
  /\ got = DOMAIN pushed
  /\ last = Returned("pop", "none")

\* C2: When a recover made with no other call in progress returns Ok, every
\* file that was Consumed at the call is Visible with its contents; a pop
\* that returns an item returns the decoded contents of a Visible file and
\* leaves it Consumed, and a pop returns empty only when no file is Visible:
\* so the pops after a recover return each recovered item before empty.
C2_RecoverRedelivers ==
  [][\A h \in Handles :
       /\ (Returns(h, {"recover_loop"}) /\ last'.res = "ok") =>
            \A p \in ConsumedIn(pre[h]) :
              /\ FileStem(p) \in DOMAIN dir'
              /\ dir'[FileStem(p)] = pre[h][p]
       /\ (Returns(h, {"pop_rename"}) /\ last'.res = "some") =>
            /\ path[h] \in VisibleIn(dir)
            /\ Decode(dir[path[h]]) = [ok |-> TRUE, val |-> item[h]]
            /\ WithExtension(path[h], "pop") \in DOMAIN dir'
            /\ path[h] \notin DOMAIN dir'
       /\ ReturnsNow(Returned("pop", "none")) => VisibleIn(dir') = {}
    ]_vars

C2_Witness ==
  /\ again # {}
  /\ last = Returned("pop", "some")
  /\ flushed = {}

\* C3: What flush removed stays removed: no file of a flushed item is in the
\* spool in any state, whatever recover is called later; a flush that returns
\* Ok leaves no Consumed file, and the file a pop selects is a Visible file,
\* never one of a flushed item: with no file Visible, pop returns empty.
C3_FlushIsPermanent ==
  [][/\ \A n \in flushed' : \A e \in Exts : <<n, e>> \notin DOMAIN dir'
     /\ \A h \in Handles :
          /\ (Returns(h, {"flush_loop"}) /\ last'.res = "ok") =>
               /\ ConsumedIn(dir') = {}
               /\ \A p \in ConsumedIn(pre[h]) : p[1] \in flushed'
          /\ (pc[h] = "idle" /\ pc'[h] = "pop_open") =>
               /\ path'[h] \in VisibleIn(dir)
               /\ path'[h][1] \notin flushed
    ]_vars

C3_Witness ==
  /\ flushed # {}
  /\ last = Returned("recover", "ok")
  /\ AllIdle
  /\ DOMAIN dir = {}

\* C4: With no recover called, however the system calls of the pops of
\* several handles interleave (with pushes, flushes and crashes), no item
\* file is returned by more than one pop.
C4_AtMostOneWinner == ~recoverRan => again = {}

\* Two pops selected the same file; one has returned it, the other has
\* read it and is about to rename it.
C4_Witness ==
  \E h \in Handles :
    /\ pc[h] = "pop_rename"
    /\ path[h][1] \in got
    /\ ~recoverRan

\* The state of the item file with stem n in directory d.
StateOf(d, n) ==
  IF <<n, "">> \in DOMAIN d THEN "Visible"
  ELSE IF <<n, "pop">> \in DOMAIN d THEN "Consumed"
  ELSE IF <<n, "inc">> \in DOMAIN d THEN "Incoming"
  ELSE "Absent"
BytesOf(d, n) ==
  IF <<n, "">> \in DOMAIN d THEN d[<<n, "">>]
  ELSE IF <<n, "pop">> \in DOMAIN d THEN d[<<n, "pop">>]
  ELSE IF <<n, "inc">> \in DOMAIN d THEN d[<<n, "inc">>]
  ELSE <<>>
StemsOf(d) == {p[1] : p \in DOMAIN d}
\* A push of the file with stem n is in progress.
BeingPushed(n) ==
  \E h \in Handles : pc[h] \in {"push_write", "push_rename"} /\ path[h][1] = n

\* C5: In every step of every interleaving of push, pop, flush, recover and
\* crashes, an item file is in one state at a time and changes state only
\* along create->Incoming (push), Incoming->Visible (the commit of the push
\* that created it), Visible->Consumed (pop), Consumed->Removed (flush) and
\* Consumed->Visible (recover), keeping its bytes once Visible; a removed
\* file is not created again; an Incoming file whose push is no longer in
\* progress stays Incoming with the bytes it has.
C5_OnlyLifecycleEdges ==
  [][\A n \in StemsOf(dir) \cup StemsOf(dir') :
       LET a == StateOf(dir, n)
           b == StateOf(dir', n)
           same == BytesOf(dir', n) = BytesOf(dir, n)
       IN /\ Cardinality({e \in Exts : <<n, e>> \in DOMAIN dir'}) <= 1
          /\ a # b =>
               \/ /\ a = "Absent" /\ b = "Incoming"
                  /\ n \notin flushed
                  /\ \E h \in Handles :
                       pc[h] = "idle" /\ pc'[h] = "push_write" /\ path'[h][1] = n
               \/ /\ a = "Incoming" /\ b = "Visible" /\ same
                  /\ \E h \in Handles :
                       pc[h] = "push_rename" /\ pc'[h] = "idle" /\ path[h][1] = n
               \/ /\ a = "Visible" /\ b = "Consumed" /\ same
                  /\ \E h \in Handles :
                       pc[h] = "pop_rename" /\ pc'[h] = "idle" /\ path[h][1] = n
               \/ /\ a = "Consumed" /\ b = "Absent"
                  /\ n \in flushed'
                  /\ \E h \in Handles : pc[h] = "flush_loop" /\ pc' = pc
               \/ /\ a = "Consumed" /\ b = "Visible" /\ same
                  /\ \E h \in Handles : pc[h] = "recover_loop" /\ pc' = pc
          /\ (a = b /\ a \in {"Visible", "Consumed"}) => same
          /\ (a = "Incoming" /\ ~BeingPushed(n)) => (b = "Incoming" /\ same)
    ]_vars

\* An orphan of a crashed push lies in the spool while another item has gone
\* through pop, recover, pop again and flush.
C5_Witness ==
  /\ \E p \in IncomingIn(dir) : ~BeingPushed(p[1])
  /\ flushed # {}
  /\ again # {}

\* C6: Whatever the interleaving of the steps of pushes with pops, and
\* wherever a push is cut short by a crash, a Visible file holds the complete
\* encoding of the item pushed into it, and the item a pop has decoded is
\* that item.
C6_AtomicPublication ==
  /\ \A p \in VisibleIn(dir) :
       /\ p[1] \in DOMAIN pushed
       /\ dir[p] = Encode(pushed[p[1]])
  /\ \A h \in Handles : HoldsPushed(h)

\* A pop has read its file while a partly written file of another push (in
\* progress or cut short) lies in the spool.
C6_Witness ==
  /\ \E p \in IncomingIn(dir) : Len(dir[p]) = 1
  /\ \E h \in Handles : pc[h] = "pop_rename"

\* C7: A flush or a recover made with no other call in progress, that is not
\* cut short by a crash, returns Ok and leaves no Consumed file; called on a
\* spool with no Consumed file (whatever Visible and Incoming files it
\* holds) it leaves the directory as it was.  So the second of two calls in
\* a row changes nothing.
C7_FlushRecoverNoOp ==
  [][\A h \in Handles :
       (Returns(h, {"flush_loop", "recover_loop"}) /\ last'.res # "crashed") =>
         /\ last'.res = "ok"
         /\ ConsumedIn(dir') = {}
         /\ ConsumedIn(pre[h]) = {} => dir' = pre[h]
    ]_vars

\* A flush has returned on a spool that holds a Visible file and an orphan
\* Incoming file, nothing having ever been flushed.
C7_Witness ==
  /\ last = Returned("flush", "ok")
  /\ flushed = {}
  /\ VisibleIn(dir) # {}
  /\ IncomingIn(dir) # {}
  /\ AllIdle

\* C8: With every pop made through the stream and no flush or recover, the
\* stream produces no file twice and only pushed items with the value
\* pushed, every poll returns Ready(item) or NotReady, NotReady only when
\* every pushed item has been produced; so once it has produced as many
\* values as were pushed, these are the pushed items and their sum is the
\* sum of the pushed ones.
C8_StreamDelivery ==
  (~recoverRan /\ flushed = {}) =>
    /\ again = {}
    /\ got \subseteq DOMAIN pushed
    /\ \A h \in Handles : HoldsPushed(h)
    /\ last.op = "poll" => last.res \in {"Ready", "NotReady"}
    /\ last = Returned("poll", "NotReady") => got = DOMAIN pushed
    /\ Cardinality(got) = Cardinality(DOMAIN pushed) =>
         /\ got = DOMAIN pushed
         /\ SumOf(got) = SumOf(DOMAIN pushed)

C8_Witness ==
  /\ ~recoverRan /\ flushed = {}
  /\ Cardinality(DOMAIN pushed) = 2
  /\ got = DOMAIN pushed
  /\ SumOf(got) = 1
  /\ last = Returned("poll", "Ready")

\* C9: The steps of a poll remove no file and start no flush and no recover:
\* every file present before is present after, or is the polled file under
\* its "pop" name with the same bytes; and every item a poll has returned is
\* a Consumed file holding the item, until a flush removes it or a recover
\* renames it.
C9_StreamNeverAcks ==
  [][/\ \A k \in unacked' :
          /\ k[1] \in DOMAIN pushed'
          /\ <<k[1], "pop">> \in DOMAIN dir'
          /\ dir'[<<k[1], "pop">>] = Encode(pushed'[k[1]])
     /\ \A h \in Handles :
          (pc'[h] # pc[h] /\ (pc[h] \in {"pop_open", "pop_rename"} \/ pc'[h] = "pop_open")) =>
            /\ pc'[h] \in {"idle", "pop_open", "pop_rename"}
            /\ flushed' = flushed
            /\ recoverRan' = recoverRan
            /\ \A p \in DOMAIN dir :
                 \/ p \in DOMAIN dir' /\ dir'[p] = dir[p]
                 \/ /\ p = path[h]
                    /\ WithExtension(p, "pop") \in DOMAIN dir'
                    /\ dir'[WithExtension(p, "pop")] = dir[p]
    ]_vars

\* The stream has produced an item and was polled again: the item is still
\* Consumed.
C9_Witness ==
  /\ \E k \in unacked : k[2] = "poll"
  /\ last = Returned("poll", "NotReady")

\* C10: After a pop has met a file that does not decode, that file is no
\* longer a file pop selects.
C10_UndecodableDiscarded ==
  last = Returned("pop", "DecodeError") => ForeignPath \notin VisibleIn(dir)

\* C11: Within every pop the selected file is renamed to its "pop" name
\* before it is opened and decoded: the file whose contents pop decodes is
\* not a Visible file.
C11_RenameBeforeDecode ==
  [][\A h \in Handles :
       (pc[h] = "pop_open" /\ pc'[h] = "pop_rename" /\ item'[h] # item[h]) =>
         path[h] \notin VisibleIn(dir)
    ]_vars

\* C12: When the file pop selected does not decode, pop returns the error
\* and the file is in the spool under its "pop" name and under no other.
C12_DecodeFailureLeavesConsumed ==
  last = Returned("pop", "DecodeError") =>
    /\ WithExtension(ForeignPath, "pop") \in DOMAIN dir
    /\ ForeignPath \notin DOMAIN dir

\* The step is one of the pop of h past its scan, and no crash.
PopStep(h) ==
  /\ pc[h] \in {"pop_open", "pop_rename"}
  /\ pc'[h] # pc[h]
  /\ ~(pc'[h] = "idle" /\ last'.res = "crashed")

\* C13: When the file a pop selected is gone by the time the pop opens or
\* renames it, another pop has returned that file's item (once), and this
\* pop returns the "not found" error at once: it changes nothing, selects no
\* other entry and does not return empty; a pop returns "not found" in no
\* other case, and the pop that finds its file in place at the rename
\* returns the item.
C13_RaceLoserNotFound ==
  [][\A h \in Handles :
       PopStep(h) =>
         /\ path[h] \notin DOMAIN dir =>
              /\ pc'[h] = "idle"
              /\ last' = Returned("pop", "NotFound")
              /\ dir' = dir /\ got' = got
              /\ path[h][1] \in got /\ path[h][1] \notin again
         /\ (pc'[h] = "idle" /\ last'.res = "NotFound") => path[h] \notin DOMAIN dir
         /\ (pc[h] = "pop_rename" /\ path[h] \in DOMAIN dir) =>
              /\ last' = Returned("pop", "some")
              /\ path[h][1] \in got'
    ]_vars

\* The loser has returned "not found" while another Visible file lies in
\* the spool.
C13_Witness ==
  /\ last = Returned("pop", "NotFound")
  /\ VisibleIn(dir) # {}
  /\ got # {}
  /\ AllIdle

\* C14: When a flush made with no other call in progress returns Ok, the
\* spool holds exactly the files it held at the call that were not Consumed,
\* with the contents they had: no Consumed file is left, and no Visible or
\* Incoming file is removed, added or changed.
C14_FlushAllAndOnlyConsumed ==
  [][\A h \in Handles :
       (Returns(h, {"flush_loop"}) /\ last'.res = "ok") =>
         /\ DOMAIN dir' = DOMAIN pre[h] \ ConsumedIn(pre[h])
         /\ \A p \in DOMAIN dir' : dir'[p] = pre[h][p]
         /\ \A p \in ConsumedIn(pre[h]) : p[1] \in flushed'
    ]_vars

\* A flush has removed a Consumed file and left another file, Visible (an
\* item not yet popped) or Incoming (an orphan), in place.
C14_Witness ==
  /\ last = Returned("flush", "ok")
  /\ flushed # {}
  /\ VisibleIn(dir) \cup IncomingIn(dir) # {}
  /\ ConsumedIn(dir) = {}
  /\ AllIdle

\* C15: The file a pop selects, opens and renames is a Visible one; no step
\* of a pop touches an Incoming or a Consumed file; and a pop called on a
\* spool with no Visible file (empty, or holding only Incoming and Consumed
\* files) returns empty in one step that leaves the spool as it is.
C15_PopSelectsOnlyVisible ==
  [][\A h \in Handles :
       /\ (pc[h] = "idle" /\ pc'[h] = "pop_open") => path'[h] \in VisibleIn(dir)
       /\ PopStep(h) =>
            /\ path[h] \in VisibleIn(dir)
            /\ \A p \in IncomingIn(dir) \cup ConsumedIn(dir) :
                 p \in DOMAIN dir' /\ dir'[p] = dir[p]
            /\ pc'[h] = "idle" =>
                 /\ last' = Returned("pop", "some")
                 /\ item[h] = Decode(dir[path[h]]).val
       /\ (last' # last /\ last'.op = "pop" /\ pc[h] = "idle" /\ pc' = pc) =>
            /\ last'.res = "none"
            /\ VisibleIn(dir) = {}
            /\ dir' = dir
    ]_vars

\* A pop has returned empty on a spool that holds a Consumed file and an
\* orphan Incoming file.
C15_Witness ==
  /\ last = Returned("pop", "none")
  /\ ConsumedIn(dir) # {}
  /\ IncomingIn(dir) # {}
  /\ AllIdle

\* C16: A push that does not reach the end of its commit rename returns the
\* error, leaves the counter as it was, and changes no file but its own
\* Incoming one: its item has no Visible file, complete or partial, and every
\* other file is in place with its contents.  (The creation itself adds the
\* Incoming file and nothing else.)
C16_FailedPush ==
  [][\A h \in Handles :
       LET mine == WithExtension(path[h], "inc")
           commits == pc[h] = "push_rename" /\ pc'[h] = "idle" /\ last'.res = "ok"
       IN /\ (pc[h] \in {"push_write", "push_rename"} /\ ~commits) =>
               /\ seq'[h] = seq[h]
               /\ \A p \in (DOMAIN dir \cup DOMAIN dir') \ {mine} :
                    p \in DOMAIN dir /\ p \in DOMAIN dir' /\ dir'[p] = dir[p]
               /\ path[h] \notin DOMAIN dir'
               /\ pc'[h] = "idle" => (last'.op = "push" /\ last'.res = "EIO")
          /\ (pc[h] = "idle" /\ pc'[h] = "push_write") =>
               /\ seq' = seq
               /\ DOMAIN dir' = DOMAIN dir \cup {WithExtension(path'[h], "inc")}
               /\ \A p \in DOMAIN dir : dir'[p] = dir[p]
          /\ (pc' = pc /\ AllIdle /\ last' # last /\ last'.op = "push") =>
               /\ last'.res = "EIO"
               /\ dir' = dir /\ seq' = seq
    ]_vars

\* A push has failed in the middle of its writes: its partly written
\* Incoming file is left, beside the Visible file of an earlier push.
C16_Witness ==
  /\ last = Returned("push", "EIO")
  /\ \E p \in IncomingIn(dir) : Len(dir[p]) = 1
  /\ \E p \in VisibleIn(dir) : p # ForeignPath
  /\ AllIdle

PollErrors == {"EIO", "DecodeError", "NotFound"}

\* C17: A poll makes one pass of pop: its steps change the spool by at most
\* the one rename of the file it selected.  It returns Ready(item) exactly
\* when that rename was made, NotReady only from a scan that found no
\* Visible file, and otherwise the error of the step that failed; it
\* returns nothing else (no end of stream).
C17_PollMapping ==
  [][/\ last'.op = "poll" => last'.res \in {"Ready", "NotReady"} \cup PollErrors
     /\ \A h \in Handles :
          /\ (PopStep(h) /\ via[h] = "poll") =>
               /\ pc'[h] # "idle" => dir' = dir
               /\ pc'[h] = "idle" =>
                    /\ last'.op = "poll"
                    /\ IF dir' # dir
                       THEN /\ last'.res = "Ready"
                            /\ pc[h] = "pop_rename"
                            /\ dir' = Rename(dir, path[h], WithExtension(path[h], "pop"))
                            /\ Decode(dir[path[h]]) = [ok |-> TRUE, val |-> item[h]]
                       ELSE last'.res \in PollErrors
          /\ (pc' = pc /\ AllIdle /\ last' # last /\ last'.op = "poll") =>
               /\ last'.res \in {"NotReady", "EIO"}
               /\ last'.res = "NotReady" => VisibleIn(dir) = {}
               /\ dir' = dir
    ]_vars

\* The stream has produced an item and a later poll has returned the error
\* of a file that does not decode.
C17_Witness ==
  /\ last = Returned("poll", "DecodeError")
  /\ \E k \in unacked : k[2] = "poll"
  /\ AllIdle

\* C18: A handle's counter is changed by no step but the commit of a push,
\* which makes it the next number; so the order-key of the handle's next
\* push is greater, as a string, than the key of the file just committed --
\* for every value of the counter, u32::MAX included.
C18_OrderKeyMonotonic ==
  [][\A h \in Handles :
       IF pc[h] = "push_rename" /\ path[h] \in DOMAIN dir'
       THEN /\ seq'[h] = SeqSucc(seq[h])
            /\ LexLess(OrderKey(path[h][1][1]), OrderKey(seq'[h]))
       ELSE seq'[h] = seq[h]
    ]_vars

\* C19: A push whose name is that of a file in the spool, in whatever state,
\* fails at its creation; and no step but a removal by flush takes away or
\* changes the payload of a Visible or Consumed file: after the step it is
\* in the spool under the same name, Visible or Consumed.
C19_PushNeverReplaces ==
  [][/\ \A h \in Handles :
          (pc[h] = "idle" /\ pc'[h] = "push_write") =>
            StateOf(dir, path'[h][1]) = "Absent"
     /\ \A p \in VisibleIn(dir) \cup ConsumedIn(dir) :
          (\A h \in Handles : pc[h] # "flush_loop") =>
            \E e \in {"", "pop"} :
              /\ <<p[1], e>> \in DOMAIN dir'
              /\ dir'[<<p[1], e>>] = dir[p]
    ]_vars

====
